---- MODULE Spec2Model ----
(***************************************************************************)
(* Model of the Supabase self-hosted MCP server (src/README.md:408-840):   *)
(* the SQL safety guards, the four tool handlers and the POST /mcp         *)
(* JSON-RPC endpoint that dispatches to them.                              *)
(*                                                                         *)
(* Text is modelled as a sequence of one-character strings, so that the    *)
(* regular expressions, String.trim, String.split and the template-string  *)
(* key `${schema}.${table}` are computed character by character.           *)
(***************************************************************************)
EXTENDS Integers, Sequences, FiniteSets, TLC

VARIABLES
    READ_ONLY,      \* const READ_ONLY                       (line 419)
    FEATURES,       \* const FEATURES: Set<string>           (line 420)
    POSTGREST_JWT,  \* const POSTGREST_JWT ('' when unset)   (line 418)
    catalog,        \* the database catalog the queries read
    pc,             \* per request: where its async handler is suspended
    req,            \* per request: the parsed JSON-RPC body
    loc,            \* per request: the handler's local variables
    resp,           \* per request: the HTTP/JSON-RPC response sent
    checkedOut,     \* number of pool clients currently checked out
    acquired,       \* per request: pool.connect() resolutions
    released,       \* per request: client.release() calls
    sent            \* per request: the queries dispatched to the engine

vars == << READ_ONLY, FEATURES, POSTGREST_JWT, catalog, pc, req, loc, resp,
           checkedOut, acquired, released, sent >>

config == << READ_ONLY, FEATURES, POSTGREST_JWT, catalog >>

(***************************************************************************)
(* Bounds of the model.                                                    *)
(***************************************************************************)
MaxCalls == 2
MaxAtoms == 3
MaxColRows == 3
MaxOtherRows == 2

(***************************************************************************)
(* Program constants.                                                      *)
(***************************************************************************)
PoolMax == 10
DefaultLimit == 100
MaxLimit == 1000

Min(a, b) == IF a <= b THEN a ELSE b
Max(a, b) == IF a >= b THEN a ELSE b

(***************************************************************************)
(* Characters.                                                             *)
(***************************************************************************)
LowerCase == << "a", "b", "c", "d", "e", "f", "g", "h", "i", "j", "k", "l", "m",
                "n", "o", "p", "q", "r", "s", "t", "u", "v", "w", "x", "y", "z" >>
UpperCase == << "A", "B", "C", "D", "E", "F", "G", "H", "I", "J", "K", "L", "M",
                "N", "O", "P", "Q", "R", "S", "T", "U", "V", "W", "X", "Y", "Z" >>
Digits == { "0", "1", "2", "3", "4", "5", "6", "7", "8", "9" }

Range(f) == { f[i] : i \in DOMAIN f }

LowerChars == Range(LowerCase)
UpperChars == Range(UpperCase)
WordChars == LowerChars \cup UpperChars \cup Digits \cup { "_" }

\* The regular-expression class \w: [A-Za-z0-9_].
IsWordChar(c) == c \in WordChars

\* The regular-expression class \s, and the characters String.trim removes.
IsSpaceChar(c) == c \in { " ", "\t", "\n", "\r" }

\* Canonicalisation of a character under the regular-expression flag i.
ToUpperChar(c) ==
    IF c \in LowerChars
    THEN UpperCase[CHOOSE i \in DOMAIN LowerCase : LowerCase[i] = c]
    ELSE c

\* The regular-expression assertion \b at the gap before position i of s
\* (i = Len(s) + 1 is the end of the text).
WordBoundaryAt(s, i) ==
    LET before == i > 1 /\ i - 1 <= Len(s) /\ IsWordChar(s[i - 1])
        after  == i >= 1 /\ i <= Len(s) /\ IsWordChar(s[i])
    IN  before # after

\* The literal w matches s at position i, ignoring case.
LiteralAt(s, i, w) ==
    /\ i >= 1
    /\ i + Len(w) - 1 <= Len(s)
    /\ \A k \in 1..Len(w) : ToUpperChar(s[i + k - 1]) = ToUpperChar(w[k])

\* s[i..j-1] is a non-empty run of \s characters.
SpacesBetween(s, i, j) ==
    /\ i < j
    /\ j - 1 <= Len(s)
    /\ \A k \in i..(j - 1) : IsSpaceChar(s[k])

(***************************************************************************)
(* SQL safety guards (lines 431-437).                                      *)
(***************************************************************************)
BannedWords ==
    { <<"I", "N", "S", "E", "R", "T">>,
      <<"U", "P", "D", "A", "T", "E">>,
      <<"D", "E", "L", "E", "T", "E">>,
      <<"M", "E", "R", "G", "E">>,
      <<"T", "R", "U", "N", "C", "A", "T", "E">>,
      <<"A", "L", "T", "E", "R">>,
      <<"D", "R", "O", "P">>,
      <<"C", "R", "E", "A", "T", "E">>,
      <<"R", "E", "I", "N", "D", "E", "X">>,
      <<"V", "A", "C", "U", "U", "M">>,
      <<"G", "R", "A", "N", "T">>,
      <<"R", "E", "V", "O", "K", "E">>,
      <<"C", "O", "P", "Y">>,
      <<"A", "N", "A", "L", "Y", "Z", "E">>,
      <<"B", "E", "G", "I", "N">>,
      <<"C", "O", "M", "M", "I", "T">>,
      <<"R", "O", "L", "L", "B", "A", "C", "K">> }
kwSET == <<"S", "E", "T">>
kwROLE == <<"R", "O", "L", "E">>
kwEXPLAIN == <<"E", "X", "P", "L", "A", "I", "N">>

\* One alternative of the group matches s[i..j-1]: a banned word, or
\* SET\s+ROLE.
BannedAlternativeAt(s, i, j) ==
    \/ \E w \in BannedWords : j = i + Len(w) /\ LiteralAt(s, i, w)
    \/ /\ LiteralAt(s, i, kwSET)
       /\ SpacesBetween(s, i + Len(kwSET), j - Len(kwROLE))
       /\ LiteralAt(s, j - Len(kwROLE), kwROLE)

\* A faulty variant of the guard: the leading \b lost.
isMutatingSql_NoLeadingBoundary(sql) ==
    \E i \in 1..Len(sql) : \E j \in (i + 1)..(Len(sql) + 1) :
        /\ WordBoundaryAt(sql, j)
        /\ BannedAlternativeAt(sql, i, j)

\* /\b(INSERT|...|SET\s+ROLE|BEGIN|COMMIT|ROLLBACK)\b/i.test(sql)
isMutatingSql(sql) ==
    \E i \in 1..Len(sql) : \E j \in (i + 1)..(Len(sql) + 1) :
        /\ WordBoundaryAt(sql, i)
        /\ WordBoundaryAt(sql, j)
        /\ BannedAlternativeAt(sql, i, j)

\* /^\s*EXPLAIN\b/i.test(sql)
isExplain(sql) ==
    \E i \in 1..(Len(sql) + 1) :
        /\ \A k \in 1..(i - 1) : IsSpaceChar(sql[k])
        /\ LiteralAt(sql, i, kwEXPLAIN)
        /\ WordBoundaryAt(sql, i + Len(kwEXPLAIN))

(***************************************************************************)
(* JavaScript built-ins the handlers use.                                  *)
(***************************************************************************)
RECURSIVE TrimStart(_)
TrimStart(s) ==
    IF s # <<>> /\ IsSpaceChar(Head(s)) THEN TrimStart(Tail(s)) ELSE s

RECURSIVE TrimEnd(_)
TrimEnd(s) ==
    IF s # <<>> /\ IsSpaceChar(s[Len(s)])
    THEN TrimEnd(SubSeq(s, 1, Len(s) - 1))
    ELSE s

\* String.prototype.trim
Trim(s) == TrimEnd(TrimStart(s))

\* Array.prototype.slice(start, end) for integer arguments.
JsSlice(a, start, end) ==
    LET n    == Len(a)
        from == IF start < 0 THEN Max(n + start, 0) ELSE Min(start, n)
        to   == IF end < 0 THEN Max(n + end, 0) ELSE Min(end, n)
    IN  IF from >= to THEN <<>> ELSE SubSeq(a, from + 1, to)

\* String.prototype.split(sep) for a one-character separator.
RECURSIVE SplitFrom(_, _, _)
SplitFrom(s, sep, cur) ==
    IF s = <<>> THEN << cur >>
    ELSE IF Head(s) = sep THEN << cur >> \o SplitFrom(Tail(s), sep, <<>>)
    ELSE SplitFrom(Tail(s), sep, Append(cur, Head(s)))

Split(s, sep) == SplitFrom(s, sep, <<>>)

\* String.prototype.includes for a one-character needle.
Includes(s, c) == \E i \in 1..Len(s) : s[i] = c

(***************************************************************************)
(* The database catalog and the catalog queries of the handlers.           *)
(* A relation is a set of rows; a query result is a sequence of rows.      *)
(***************************************************************************)
Collation == << ".", "0", "1", "2", "3", "4", "5", "6", "7", "8", "9" >>
             \o UpperCase \o << "_" >> \o LowerCase

CharRank(c) == CHOOSE i \in DOMAIN Collation : Collation[i] = c

\* Text comparison of ORDER BY.
RECURSIVE TextLess(_, _)
TextLess(a, b) ==
    IF b = <<>> THEN FALSE
    ELSE IF a = <<>> THEN TRUE
    ELSE IF Head(a) = Head(b) THEN TextLess(Tail(a), Tail(b))
    ELSE CharRank(Head(a)) < CharRank(Head(b))

\* ORDER BY table_schema, table_name, ordinal_position
ColumnOrderLess(x, y) ==
    \/ TextLess(x.table_schema, y.table_schema)
    \/ /\ x.table_schema = y.table_schema
       /\ \/ TextLess(x.table_name, y.table_name)
          \/ /\ x.table_name = y.table_name
             /\ x.ordinal_position < y.ordinal_position

RECURSIVE OrderedColumns(_)
OrderedColumns(S) ==
    IF S = {} THEN <<>>
    ELSE LET first == CHOOSE x \in S : \A y \in S \ {x} : ColumnOrderLess(x, y)
         IN  << first >> \o OrderedColumns(S \ {first})

\* The rows of a set in the order the engine happens to return them.
RECURSIVE RowsOf(_)
RowsOf(S) ==
    IF S = {} THEN <<>>
    ELSE LET x == CHOOSE y \in S : TRUE IN << x >> \o RowsOf(S \ {x})

\* x = ANY($1::text[])
AnyOf(x, schemas) == \E i \in 1..Len(schemas) : schemas[i] = x

\* The columns query of introspect_schema (lines 534-545).
ColumnsQuery(cat, schemas) ==
    LET rows == OrderedColumns({ c \in cat.columns : AnyOf(c.table_schema, schemas) })
    IN  [ i \in 1..Len(rows) |->
            [ table_schema |-> rows[i].table_schema,
              table_name   |-> rows[i].table_name,
              column_name  |-> rows[i].column_name,
              data_type    |-> rows[i].data_type,
              is_nullable  |-> rows[i].is_nullable ] ]

\* The indexes query (lines 548-552).
IndexesQuery(cat, schemas) ==
    RowsOf({ i \in cat.indexes : AnyOf(i.schemaname, schemas) })

\* The constraints query (lines 555-561).
ConstraintsQuery(cat, schemas) ==
    RowsOf({ c \in cat.constraints : AnyOf(c.schema, schemas) })

\* The policies query (lines 564-570).
PoliciesQuery(cat, schemas) ==
    RowsOf({ p \in cat.policies : AnyOf(p.schema, schemas) })

(***************************************************************************)
(* introspect_schema: the summary map and the digest (lines 572-620).      *)
(* The map is a JavaScript object with string keys: a sequence of entries  *)
(* in insertion order, at most one entry per key.                          *)
(***************************************************************************)
\* `${schema}.${table}`
KeyOf(schema, table) == schema \o << "." >> \o table

MapHas(map, key) == \E i \in 1..Len(map) : map[i].key = key

MapIndex(map, key) == CHOOSE i \in 1..Len(map) : map[i].key = key

\* One iteration of the loop over cols.rows (lines 574-589).
AddColumn(map, row) ==
    LET key    == KeyOf(row.table_schema, row.table_name)
        seeded == IF MapHas(map, key) THEN map
                  ELSE Append(map, [ key         |-> key,
                                     schema      |-> row.table_schema,
                                     table       |-> row.table_name,
                                     columns     |-> <<>>,
                                     indexes     |-> <<>>,
                                     constraints |-> <<>>,
                                     rls         |-> <<>> ])
        k      == MapIndex(seeded, key)
    IN  [ seeded EXCEPT ![k].columns =
            Append(@, [ name     |-> row.column_name,
                        type     |-> row.data_type,
                        nullable |-> (row.is_nullable = "YES") ]) ]

RECURSIVE SeedColumns(_, _)
SeedColumns(map, rows) ==
    IF rows = <<>> THEN map
    ELSE SeedColumns(AddColumn(map, Head(rows)), Tail(rows))

\* A faulty variant: an index row seeds a missing entry instead of being dropped.
AddIndex_Seeding(map, i) ==
    LET key    == KeyOf(i.schemaname, i.tablename)
        seeded == IF MapHas(map, key) THEN map
                  ELSE Append(map, [ key         |-> key,
                                     schema      |-> i.schemaname,
                                     table       |-> i.tablename,
                                     columns     |-> <<>>,
                                     indexes     |-> <<>>,
                                     constraints |-> <<>>,
                                     rls         |-> <<>> ])
    IN  [ seeded EXCEPT ![MapIndex(seeded, key)].indexes =
            Append(@, [ name |-> i.indexname, def |-> i.indexdef ]) ]

\* One iteration of the loop over idx.rows (lines 591-594).
AddIndex(map, i) ==
    LET key == KeyOf(i.schemaname, i.tablename)
    IN  IF MapHas(map, key)
        THEN [ map EXCEPT ![MapIndex(map, key)].indexes =
                 Append(@, [ name |-> i.indexname, def |-> i.indexdef ]) ]
        ELSE map

\* One iteration of the loop over cons.rows (lines 596-599).
AddConstraint(map, c) ==
    LET key == KeyOf(c.schema, c.table)
    IN  IF MapHas(map, key)
        THEN [ map EXCEPT ![MapIndex(map, key)].constraints =
                 Append(@, [ name |-> c.conname, type |-> c.contype ]) ]
        ELSE map

\* One iteration of the loop over rls.rows (lines 601-604).
AddPolicy(map, p) ==
    LET key == KeyOf(p.schema, p.table)
    IN  IF MapHas(map, key)
        THEN [ map EXCEPT ![MapIndex(map, key)].rls =
                 Append(@, [ name |-> p.policy_name, cmd |-> p.cmd ]) ]
        ELSE map

RECURSIVE AttachIndexes(_, _)
AttachIndexes(map, rows) ==
    IF rows = <<>> THEN map
    ELSE AttachIndexes(AddIndex(map, Head(rows)), Tail(rows))

RECURSIVE AttachConstraints(_, _)
AttachConstraints(map, rows) ==
    IF rows = <<>> THEN map
    ELSE AttachConstraints(AddConstraint(map, Head(rows)), Tail(rows))

RECURSIVE AttachPolicies(_, _)
AttachPolicies(map, rows) ==
    IF rows = <<>> THEN map
    ELSE AttachPolicies(AddPolicy(map, Head(rows)), Tail(rows))

\* The summary map after the four loops (lines 573-604).
BuildMap(cols, idx, cons, rls) ==
    AttachPolicies(
        AttachConstraints(
            AttachIndexes(SeedColumns(<<>>, cols), idx),
            cons),
        rls)

\* `${c.name}:${c.type}${c.nullable ? '' : '!'}` (line 610)
RenderColumn(c) ==
    c.name \o << ":" >> \o c.type \o (IF c.nullable THEN <<>> ELSE << "!" >>)

\* Object.values(map).map(...) (lines 607-614)
DigestOf(map) ==
    [ i \in 1..Len(map) |->
        [ schema     |-> map[i].schema,
          table      |-> map[i].table,
          cols       |-> [ k \in 1..Len(map[i].columns) |->
                             RenderColumn(map[i].columns[k]) ],
          idx_count  |-> Len(map[i].indexes),
          cons_count |-> Len(map[i].constraints),
          rls        |-> (Len(map[i].rls) > 0) ] ]

DigestNote == "Use sbsh_get_table_doc for detailed column info"

\* The value introspect_schema returns (lines 616-620).
IntrospectResult(cols, idx, cons, rls) ==
    LET map == BuildMap(cols, idx, cons, rls)
    IN  [ type        |-> "digest",
          digest      |-> DigestOf(map),
          table_count |-> Len(map),
          note        |-> DigestNote ]

(***************************************************************************)
(* Optional values: an undefined property is None, a present one Some(v).  *)
(***************************************************************************)
None == <<>>
Some(v) == << v >>
Get(o) == o[1]

\* String(x ?? '')
StringOr(o, default) == IF o = None THEN default ELSE Get(o)

\* Number(x ?? n), for an integer or undefined x
NumberOr(o, default) == IF o = None THEN default ELSE Get(o)

(***************************************************************************)
(* Requests, responses and the state of one request.                       *)
(***************************************************************************)
Calls == 1..MaxCalls

ToolIntrospect == "sbsh_introspect_schema"
ToolExecuteSql == "sbsh_execute_sql"
ToolPostgrest == "sbsh_postgrest_get"
ToolTableDoc == "sbsh_get_table_doc"

\* The keys of `handlers` (lines 523-761).
HandlerNames == { ToolIntrospect, ToolExecuteSql, ToolPostgrest, ToolTableDoc }

NoArgs == [ sql |-> None, limit |-> None, schemas |-> None, table |-> None ]

NoReq == [ valid |-> FALSE, id |-> None, method |-> "", name |-> None,
           arguments |-> NoArgs ]

NoLoc == [ tool |-> "" ]

NoResp == [ status |-> 0, id |-> None, error |-> None, result |-> None ]

\* c.json({ jsonrpc, id, result })
JsonResult(id, result) ==
    [ status |-> 200, id |-> id, error |-> None, result |-> Some(result) ]

\* c.json({ jsonrpc, id, error: { code, message } }, status)
JsonError(status, id, code, message) ==
    [ status |-> status, id |-> id,
      error |-> Some([ code |-> code, message |-> message ]),
      result |-> None ]

\* The catch block of the endpoint (lines 817-827).
CatchResponse(message) ==
    [ status |-> 500, id |-> None,
      error |-> Some([ code |-> -32603, message |-> message ]),
      result |-> None ]

FeatureDisabledMsg(feature) == "Feature \"" \o feature \o "\" is disabled"
SqlRequiredMsg == "SQL query is required"
TableRequiredMsg == "Table name is required"
JwtMissingMsg == "POSTGREST_JWT is not configured"
ReadOnlyMsg ==
    "READ_ONLY mode: DML/DDL/DCL operations are blocked. Only SELECT and EXPLAIN are allowed."
ParseErrorMsg == "invalid request body"
ConnectErrorMsg == "timeout exceeded when trying to connect"
EngineErrorMsg == "engine error"
PostgrestErrorMsg == "PostgREST error"

\* What a handler does up to its first await: it throws, or it suspends.
Throw(message) == [ throw |-> TRUE, message |-> message, pc |-> "done", loc |-> NoLoc ]
Await(at, locals) == [ throw |-> FALSE, message |-> "", pc |-> at, loc |-> locals ]

(***************************************************************************)
(* The handlers up to their first await.                                   *)
(***************************************************************************)
\* A faulty variant: EXPLAIN no longer bypasses the mutation check.
GateDenies_NoExplainBypass(sql) == READ_ONLY /\ isMutatingSql(sql)

\* The safety check of execute_sql (lines 636-640): TRUE when it throws.
GateDenies(sql) == READ_ONLY /\ ~isExplain(sql) /\ isMutatingSql(sql)

\* Math.min(Number(params?.limit ?? 100), 1000) (line 631)
LimitOf(args) == Min(NumberOr(args.limit, DefaultLimit), MaxLimit)

\* A faulty variant: the feature check of execute_sql dropped.
ExecuteSqlStart_NoFeatureCheck(args) ==
    LET sql == StringOr(args.sql, <<>>)
    IN  IF Trim(sql) = <<>> THEN Throw(SqlRequiredMsg)
        ELSE IF GateDenies(sql) THEN Throw(ReadOnlyMsg)
        ELSE Await("connect", [ tool |-> ToolExecuteSql, sql |-> sql,
                                limit |-> LimitOf(args) ])

\* A faulty variant: the safety check dropped.
ExecuteSqlStart_NoSafetyCheck(args) ==
    LET sql == StringOr(args.sql, <<>>)
    IN  IF "database" \notin FEATURES THEN Throw(FeatureDisabledMsg("database"))
        ELSE IF Trim(sql) = <<>> THEN Throw(SqlRequiredMsg)
        ELSE Await("connect", [ tool |-> ToolExecuteSql, sql |-> sql,
                                limit |-> LimitOf(args) ])

\* A faulty variant: the check of the sql argument dropped.
ExecuteSqlStart_NoValidation(args) ==
    LET sql == StringOr(args.sql, <<>>)
    IN  IF "database" \notin FEATURES THEN Throw(FeatureDisabledMsg("database"))
        ELSE IF GateDenies(sql) THEN Throw(ReadOnlyMsg)
        ELSE Await("connect", [ tool |-> ToolExecuteSql, sql |-> sql,
                                limit |-> LimitOf(args) ])

\* execute_sql (lines 627-642)
ExecuteSqlStart(args) ==
    LET sql == StringOr(args.sql, <<>>)
    IN  IF "database" \notin FEATURES THEN Throw(FeatureDisabledMsg("database"))
        ELSE IF Trim(sql) = <<>> THEN Throw(SqlRequiredMsg)
        ELSE IF GateDenies(sql) THEN Throw(ReadOnlyMsg)
        ELSE Await("connect", [ tool |-> ToolExecuteSql, sql |-> sql,
                                limit |-> LimitOf(args) ])

\* introspect_schema (lines 526-531)
IntrospectStart(args) ==
    IF "database" \notin FEATURES THEN Throw(FeatureDisabledMsg("database"))
    ELSE Await("connect",
               [ tool    |-> ToolIntrospect,
                 schemas |-> IF args.schemas = None THEN << <<"p", "u", "b", "l", "i", "c">> >>
                             ELSE Get(args.schemas) ])

\* const [schema, table] = tableInput.includes('.') ? tableInput.split('.')
\*                                                   : ['public', tableInput]
\* (lines 716-718); a missing second element destructures to undefined.
ResolveTable(tableInput) ==
    IF Includes(tableInput, ".")
    THEN LET parts == Split(tableInput, ".")
         IN  [ schema |-> parts[1], table |-> parts[2] ]
    ELSE [ schema |-> <<"p", "u", "b", "l", "i", "c">>, table |-> tableInput ]

\* get_table_doc (lines 710-720)
TableDocStart(args) ==
    LET tableInput == StringOr(args.table, <<>>)
    IN  IF "docs" \notin FEATURES THEN Throw(FeatureDisabledMsg("docs"))
        ELSE IF tableInput = <<>> THEN Throw(TableRequiredMsg)
        ELSE Await("connect",
                   [ tool   |-> ToolTableDoc,
                     schema |-> ResolveTable(tableInput).schema,
                     table  |-> ResolveTable(tableInput).table ])

\* postgrest_get (lines 670-694)
PostgrestStart(args) ==
    LET table == StringOr(args.table, <<>>)
    IN  IF "postgrest" \notin FEATURES THEN Throw(FeatureDisabledMsg("postgrest"))
        ELSE IF ~POSTGREST_JWT THEN Throw(JwtMissingMsg)
        ELSE IF table = <<>> THEN Throw(TableRequiredMsg)
        ELSE Await("fetch", [ tool |-> ToolPostgrest, table |-> table ])

\* handlers[toolName](req.params?.arguments ?? {}) (line 803)
HandlerStart(name, args) ==
    CASE name = ToolIntrospect -> IntrospectStart(args)
      [] name = ToolExecuteSql -> ExecuteSqlStart(args)
      [] name = ToolPostgrest  -> PostgrestStart(args)
      [] name = ToolTableDoc   -> TableDocStart(args)

\* listTools() (lines 450-520): the names advertised.
ListTools ==
    (IF "database" \in FEATURES THEN << ToolIntrospect, ToolExecuteSql >> ELSE <<>>)
    \o (IF "postgrest" \in FEATURES THEN << ToolPostgrest >> ELSE <<>>)
    \o (IF "docs" \in FEATURES THEN << ToolTableDoc >> ELSE <<>>)

(***************************************************************************)
(* POST /mcp (lines 778-828), up to the first await of the tool handler.   *)
(***************************************************************************)
Finished(response) == [ pc |-> "done", loc |-> NoLoc, resp |-> response ]

EndpointStart(e) ==
    IF ~e.valid THEN Finished(CatchResponse(ParseErrorMsg))
    ELSE IF e.method = "tools/list"
    THEN Finished(JsonResult(e.id, [ type |-> "tools", tools |-> ListTools ]))
    ELSE IF e.method = "tools/call"
    THEN IF e.name = None \/ Get(e.name) \notin HandlerNames
         THEN Finished(JsonError(404, e.id, -32601,
                  "Tool not found: " \o StringOr(e.name, "undefined")))
         ELSE LET h == HandlerStart(Get(e.name), e.arguments)
              IN  IF h.throw THEN Finished(CatchResponse(h.message))
                  ELSE [ pc |-> h.pc, loc |-> h.loc, resp |-> NoResp ]
    ELSE Finished(JsonError(404, e.id, -32601, "Method not found: " \o e.method))

\* A request arrives and runs until it responds or suspends.
Post(r, Envelopes) ==
    /\ pc[r] = "idle"
    /\ \E e \in Envelopes :
         LET out == EndpointStart(e)
         IN  /\ req' = [ req EXCEPT ![r] = e ]
             /\ pc' = [ pc EXCEPT ![r] = out.pc ]
             /\ loc' = [ loc EXCEPT ![r] = out.loc ]
             /\ resp' = [ resp EXCEPT ![r] = out.resp ]
    /\ UNCHANGED << config, checkedOut, acquired, released, sent >>

\* The response has been delivered; the next request of this client may come.
NextRequest(r) ==
    /\ pc[r] = "done"
    /\ pc' = [ pc EXCEPT ![r] = "idle" ]
    /\ req' = [ req EXCEPT ![r] = NoReq ]
    /\ loc' = [ loc EXCEPT ![r] = NoLoc ]
    /\ resp' = [ resp EXCEPT ![r] = NoResp ]
    /\ acquired' = [ acquired EXCEPT ![r] = 0 ]
    /\ released' = [ released EXCEPT ![r] = 0 ]
    /\ sent' = [ sent EXCEPT ![r] = <<>> ]
    /\ UNCHANGED << config, checkedOut >>

(***************************************************************************)
(* The handlers after pool.connect().                                      *)
(***************************************************************************)
QueryPcs == { "explain", "query", "columns", "indexes", "constraints", "policies",
              "doc_columns", "doc_constraints", "doc_policies" }

\* A query handed to client.query(): the statement text of execute_sql, or
\* one of the fixed catalog queries.
Query(kind, text) == [ kind |-> kind, text |-> text ]

\* Where a handler waits once it holds a client and has issued its first
\* client.query().
FirstQuery(locals) ==
    CASE locals.tool = ToolExecuteSql ->
           IF isExplain(locals.sql) THEN "explain" ELSE "query"
      [] locals.tool = ToolIntrospect -> "columns"
      [] locals.tool = ToolTableDoc -> "doc_columns"

FirstQuerySent(locals) ==
    IF locals.tool = ToolExecuteSql THEN Query("sql", locals.sql)
    ELSE Query(FirstQuery(locals), <<>>)

\* await pool.connect() resolves (lines 529, 642, 720); the handler goes on
\* to its first query.
Connect(r) ==
    /\ pc[r] = "connect"
    /\ checkedOut < PoolMax
    /\ checkedOut' = checkedOut + 1
    /\ acquired' = [ acquired EXCEPT ![r] = @ + 1 ]
    /\ sent' = [ sent EXCEPT ![r] = Append(@, FirstQuerySent(loc[r])) ]
    /\ pc' = [ pc EXCEPT ![r] = FirstQuery(loc[r]) ]
    /\ UNCHANGED << config, req, loc, resp, released >>

\* await pool.connect() rejects: nothing was acquired, the endpoint catches.
ConnectFail(r) ==
    /\ pc[r] = "connect"
    /\ pc' = [ pc EXCEPT ![r] = "done" ]
    /\ resp' = [ resp EXCEPT ![r] = CatchResponse(ConnectErrorMsg) ]
    /\ loc' = [ loc EXCEPT ![r] = NoLoc ]
    /\ UNCHANGED << config, req, checkedOut, acquired, released, sent >>

\* finally { client.release() }
Release(r) ==
    /\ checkedOut' = checkedOut - 1
    /\ released' = [ released EXCEPT ![r] = @ + 1 ]

\* A faulty variant: the rejected query is issued again.
QueryFail_Retry(r) ==
    /\ pc[r] \in QueryPcs
    /\ Len(sent[r]) < 5
    /\ sent' = [ sent EXCEPT ![r] = Append(@, @[Len(@)]) ]
    /\ UNCHANGED << config, req, loc, resp, pc, checkedOut, acquired, released >>

\* A faulty variant: the client is not released when a query rejects.
QueryFail_NoRelease(r) ==
    /\ pc[r] \in QueryPcs
    /\ pc' = [ pc EXCEPT ![r] = "done" ]
    /\ resp' = [ resp EXCEPT ![r] = CatchResponse(EngineErrorMsg) ]
    /\ loc' = [ loc EXCEPT ![r] = NoLoc ]
    /\ UNCHANGED << config, req, checkedOut, acquired, released, sent >>

\* A faulty variant: a rejected query of introspect_schema is taken as an
\* empty result and the digest of nothing is returned.
QueryFail_EmptyDigest(r) ==
    /\ pc[r] \in QueryPcs
    /\ Release(r)
    /\ pc' = [ pc EXCEPT ![r] = "done" ]
    /\ resp' = [ resp EXCEPT ![r] =
                   IF loc[r].tool = ToolIntrospect
                   THEN JsonResult(req[r].id, IntrospectResult(<<>>, <<>>, <<>>, <<>>))
                   ELSE CatchResponse(EngineErrorMsg) ]
    /\ loc' = [ loc EXCEPT ![r] = NoLoc ]
    /\ UNCHANGED << config, req, acquired, sent >>

\* A client.query() rejects: finally releases, the endpoint catches.
QueryFail(r) ==
    /\ pc[r] \in QueryPcs
    /\ Release(r)
    /\ pc' = [ pc EXCEPT ![r] = "done" ]
    /\ resp' = [ resp EXCEPT ![r] = CatchResponse(EngineErrorMsg) ]
    /\ loc' = [ loc EXCEPT ![r] = NoLoc ]
    /\ UNCHANGED << config, req, acquired, sent >>

\* The rows a statement produced.
RowsOfCount(n) == [ i \in 1..n |-> i ]

\* The value execute_sql returns for a non-EXPLAIN statement (lines 654-663).
QueryResult(rows, limit) ==
    [ type      |-> "query",
      rows      |-> JsSlice(rows, 0, limit),
      rowCount  |-> Len(rows),
      truncated |-> (Len(rows) > limit) ]

\* The value execute_sql returns for EXPLAIN (lines 645-651).
ExplainResult(rows) == [ type |-> "explain", plan |-> rows ]

\* client.query(sql) of execute_sql resolves with n rows.
ExecuteSqlDone(r, RowCounts) ==
    /\ pc[r] \in { "explain", "query" }
    /\ \E n \in RowCounts :
         resp' = [ resp EXCEPT ![r] =
                     JsonResult(req[r].id,
                        IF pc[r] = "explain"
                        THEN ExplainResult(RowsOfCount(n))
                        ELSE QueryResult(RowsOfCount(n), loc[r].limit)) ]
    /\ Release(r)
    /\ pc' = [ pc EXCEPT ![r] = "done" ]
    /\ UNCHANGED << config, req, loc, acquired, sent >>

\* A faulty variant: the columns result kept in one place shared by all the
\* introspect_schema calls in flight.
ColumnsDone_Shared(r) ==
    /\ pc[r] = "columns"
    /\ LET cols == ColumnsQuery(catalog, loc[r].schemas)
       IN  loc' = [ q \in Calls |->
                      IF q = r
                      THEN [ tool |-> ToolIntrospect, schemas |-> loc[r].schemas,
                             cols |-> cols ]
                      ELSE IF loc[q].tool = ToolIntrospect /\ "cols" \in DOMAIN loc[q]
                      THEN [ loc[q] EXCEPT !.cols = cols ]
                      ELSE loc[q] ]
    /\ sent' = [ sent EXCEPT ![r] = Append(@, Query("indexes", <<>>)) ]
    /\ pc' = [ pc EXCEPT ![r] = "indexes" ]
    /\ UNCHANGED << config, req, resp, checkedOut, acquired, released >>

\* The three queries of introspect_schema that are followed by another one.
ColumnsDone(r) ==
    /\ pc[r] = "columns"
    /\ loc' = [ loc EXCEPT ![r] =
                  [ tool |-> ToolIntrospect, schemas |-> loc[r].schemas,
                    cols |-> ColumnsQuery(catalog, loc[r].schemas) ] ]
    /\ sent' = [ sent EXCEPT ![r] = Append(@, Query("indexes", <<>>)) ]
    /\ pc' = [ pc EXCEPT ![r] = "indexes" ]
    /\ UNCHANGED << config, req, resp, checkedOut, acquired, released >>

IndexesDone(r) ==
    /\ pc[r] = "indexes"
    /\ loc' = [ loc EXCEPT ![r] =
                  [ tool |-> ToolIntrospect, schemas |-> loc[r].schemas,
                    cols |-> loc[r].cols,
                    idx  |-> IndexesQuery(catalog, loc[r].schemas) ] ]
    /\ sent' = [ sent EXCEPT ![r] = Append(@, Query("constraints", <<>>)) ]
    /\ pc' = [ pc EXCEPT ![r] = "constraints" ]
    /\ UNCHANGED << config, req, resp, checkedOut, acquired, released >>

ConstraintsDone(r) ==
    /\ pc[r] = "constraints"
    /\ loc' = [ loc EXCEPT ![r] =
                  [ tool |-> ToolIntrospect, schemas |-> loc[r].schemas,
                    cols |-> loc[r].cols, idx |-> loc[r].idx,
                    cons |-> ConstraintsQuery(catalog, loc[r].schemas) ] ]
    /\ sent' = [ sent EXCEPT ![r] = Append(@, Query("policies", <<>>)) ]
    /\ pc' = [ pc EXCEPT ![r] = "policies" ]
    /\ UNCHANGED << config, req, resp, checkedOut, acquired, released >>

\* The last query resolves: the map and the digest are built, the client is
\* released and the result returned (lines 572-623).
PoliciesDone(r) ==
    /\ pc[r] = "policies"
    /\ LET rls == PoliciesQuery(catalog, loc[r].schemas)
       IN  /\ loc' = [ loc EXCEPT ![r] =
                         [ tool |-> ToolIntrospect, schemas |-> loc[r].schemas,
                           cols |-> loc[r].cols, idx |-> loc[r].idx,
                           cons |-> loc[r].cons, rls |-> rls ] ]
           /\ resp' = [ resp EXCEPT ![r] =
                          JsonResult(req[r].id,
                              IntrospectResult(loc[r].cols, loc[r].idx,
                                               loc[r].cons, rls)) ]
    /\ Release(r)
    /\ pc' = [ pc EXCEPT ![r] = "done" ]
    /\ UNCHANGED << config, req, acquired, sent >>

(***************************************************************************)
(* get_table_doc after pool.connect() (lines 722-760).                     *)
(***************************************************************************)
\* WHERE table_schema = $1 AND table_name = $2 ORDER BY ordinal_position
DocColumnsQuery(cat, schema, table) ==
    LET rows == OrderedColumns({ c \in cat.columns :
                    c.table_schema = schema /\ c.table_name = table })
    IN  [ i \in 1..Len(rows) |->
            [ column_name |-> rows[i].column_name,
              data_type   |-> rows[i].data_type,
              is_nullable |-> rows[i].is_nullable ] ]

\* WHERE conrelid = ($1 || '.' || $2)::regclass
DocConstraintsQuery(cat, schema, table) ==
    RowsOf({ c \in cat.constraints :
               KeyOf(c.schema, c.table) = KeyOf(schema, table) })

\* WHERE polrelid = ($1 || '.' || $2)::regclass
DocPoliciesQuery(cat, schema, table) ==
    RowsOf({ p \in cat.policies :
               KeyOf(p.schema, p.table) = KeyOf(schema, table) })

DocColumnsDone(r) ==
    /\ pc[r] = "doc_columns"
    /\ loc' = [ loc EXCEPT ![r] =
                  [ tool |-> ToolTableDoc, schema |-> loc[r].schema,
                    table |-> loc[r].table,
                    cols |-> DocColumnsQuery(catalog, loc[r].schema, loc[r].table) ] ]
    /\ sent' = [ sent EXCEPT ![r] = Append(@, Query("doc_constraints", <<>>)) ]
    /\ pc' = [ pc EXCEPT ![r] = "doc_constraints" ]
    /\ UNCHANGED << config, req, resp, checkedOut, acquired, released >>

DocConstraintsDone(r) ==
    /\ pc[r] = "doc_constraints"
    /\ loc' = [ loc EXCEPT ![r] =
                  [ tool |-> ToolTableDoc, schema |-> loc[r].schema,
                    table |-> loc[r].table, cols |-> loc[r].cols,
                    cons |-> DocConstraintsQuery(catalog, loc[r].schema,
                                                 loc[r].table) ] ]
    /\ sent' = [ sent EXCEPT ![r] = Append(@, Query("doc_policies", <<>>)) ]
    /\ pc' = [ pc EXCEPT ![r] = "doc_policies" ]
    /\ UNCHANGED << config, req, resp, checkedOut, acquired, released >>

DocPoliciesDone(r) ==
    /\ pc[r] = "doc_policies"
    /\ LET rls == DocPoliciesQuery(catalog, loc[r].schema, loc[r].table)
       IN  resp' = [ resp EXCEPT ![r] =
                       JsonResult(req[r].id,
                           [ type         |-> "table_doc",
                             schema       |-> loc[r].schema,
                             table        |-> loc[r].table,
                             columns      |-> loc[r].cols,
                             constraints  |-> loc[r].cons,
                             rls_policies |-> rls,
                             rls_enabled  |-> (Len(rls) > 0) ]) ]
    /\ Release(r)
    /\ pc' = [ pc EXCEPT ![r] = "done" ]
    /\ UNCHANGED << config, req, loc, acquired, sent >>

(***************************************************************************)
(* postgrest_get after fetch() (lines 687-706).                            *)
(***************************************************************************)
FetchDone(r) ==
    /\ pc[r] = "fetch"
    /\ \E ok \in BOOLEAN :
         resp' = [ resp EXCEPT ![r] =
                     IF ok
                     THEN JsonResult(req[r].id,
                              [ type |-> "postgrest", rls_respected |-> TRUE ])
                     ELSE CatchResponse(PostgrestErrorMsg) ]
    /\ pc' = [ pc EXCEPT ![r] = "done" ]
    /\ UNCHANGED << config, req, loc, checkedOut, acquired, released, sent >>

(***************************************************************************)
(* The inputs the model draws from.                                        *)
(***************************************************************************)
nmPublic == <<"p", "u", "b", "l", "i", "c">>
nmUsers == <<"u", "s", "e", "r", "s">>
nmA == <<"a">>
nmAB == <<"a", ".", "b">>
nmC == <<"c">>
nmBC == <<"b", ".", "c">>
nmABC == <<"a", ".", "b", ".", "c">>
nmId == <<"i", "d">>
nmEmail == <<"e", "m", "a", "i", "l">>
tyUuid == <<"u", "u", "i", "d">>
tyText == <<"t", "e", "x", "t">>
sqlSelect1 == <<"S", "E", "L", "E", "C", "T", " ", "1">>
sqlDropTableT == <<"D", "R", "O", "P", " ", "T", "A", "B", "L", "E", " ", "t">>
sqlExplainDelete == <<"E", "X", "P", "L", "A", "I", "N", " ", "D", "E", "L", "E", "T", "E", " ", "F", "R", "O", "M", " ", "t">>
sqlDropUsers == <<"D", "R", "O", "P", " ", "T", "A", "B", "L", "E", " ", "u", "s", "e", "r", "s">>
sqlSelectAll == <<"S", "E", "L", "E", "C", "T", " ", "*", " ", "F", "R", "O", "M", " ", "t">>
sqlExplainSelect == <<"E", "X", "P", "L", "A", "I", "N", " ", "S", "E", "L", "E", "C", "T", " ", "1">>
sqlExplainThenDrop == <<"E", "X", "P", "L", "A", "I", "N", " ", "S", "E", "L", "E", "C", "T", " ", "1", ";", " ", "D", "R", "O", "P", " ", "T", "A", "B", "L", "E", " ", "u", "s", "e", "r", "s">>
sqlLowerExplain == <<" ", " ", "e", "x", "p", "l", "a", "i", "n", " ", "s", "e", "l", "e", "c", "t", " ", "1">>
sqlUpdateInLiteral == <<"S", "E", "L", "E", "C", "T", " ", "'", "u", "p", "d", "a", "t", "e", "'">>
sqlDropInComment == <<"S", "E", "L", "E", "C", "T", " ", "1", " ", "-", "-", " ", "d", "r", "o", "p">>
sqlUpdatedAt == <<"S", "E", "L", "E", "C", "T", " ", "u", "p", "d", "a", "t", "e", "d", "_", "a", "t", " ", "F", "R", "O", "M", " ", "t">>
sqlSetRoleLines == <<"s", "e", "t", "\n", "\t", "r", "o", "l", "e", " ", "x">>
sqlBlank == <<" ", "\n">>

ToLowerChar(c) ==
    IF c \in UpperChars
    THEN LowerCase[CHOOSE i \in DOMAIN UpperCase : UpperCase[i] = c]
    ELSE c

LowerOf(w) == [ i \in 1..Len(w) |-> ToLowerChar(w[i]) ]

\* Every keyword of the deny-list alone, in lower case, glued to an
\* identifier character and next to punctuation.
KeywordStatements ==
    LET words == BannedWords \cup { kwSET \o << " " >> \o kwROLE }
    IN  UNION { { w, LowerOf(w), << "x" >> \o w, w \o << "_", "x" >>,
                  << "(" >> \o LowerOf(w) \o << ")" >> } : w \in words }

ExampleStatements ==
    { sqlSelect1, sqlDropTableT, sqlExplainDelete, sqlDropUsers, sqlSelectAll,
      sqlExplainSelect, sqlExplainThenDrop, sqlLowerExplain, sqlUpdateInLiteral,
      sqlDropInComment, sqlUpdatedAt, sqlSetRoleLines, sqlBlank }

\* Pieces of text that statements are glued from.
Atoms ==
    { << "D", "R", "O", "P" >>, << "d", "R", "o", "p" >>, kwSET, LowerOf(kwROLE),
      kwEXPLAIN, << " " >>, << "\n" >>, << "x" >>, << "_" >>, << "'" >> }

RECURSIVE Glued(_)
Glued(k) ==
    IF k = 0 THEN { <<>> }
    ELSE LET shorter == Glued(k - 1)
         IN  shorter \cup { p \o a : p \in shorter, a \in Atoms }

Statements == Glued(MaxAtoms) \cup KeywordStatements \cup ExampleStatements

Envelope(id, method, name, arguments) ==
    [ valid |-> TRUE, id |-> id, method |-> method, name |-> name,
      arguments |-> arguments ]

ToolCall(id, name, arguments) == Envelope(id, "tools/call", Some(name), arguments)

\* Requests of the classifier runs: execute_sql over all the statements.
SqlEnvelopes ==
    { ToolCall(Some(7), ToolExecuteSql, [ NoArgs EXCEPT !.sql = Some(s) ]) :
        s \in Statements }
    \cup { ToolCall(Some(7), ToolExecuteSql, NoArgs) }

Limits == { None } \cup { Some(l) : l \in { -5, -1, 0, 1, 2, 99, 100, 1000, 1001, 5000 } }

RowCounts == { 0, 1, 2, 3, 4, 99, 100, 101, 1000, 1001, 1500 }

\* Requests of the row-limit runs.
RowEnvelopes ==
    { ToolCall(Some(7), ToolExecuteSql,
               [ NoArgs EXCEPT !.sql = Some(s), !.limit = l ]) :
        s \in { sqlSelectAll, sqlExplainSelect }, l \in Limits }

\* Requests of the digest runs.
DigestEnvelopes ==
    { ToolCall(Some(7), ToolIntrospect, [ NoArgs EXCEPT !.schemas = sch ]) :
        sch \in { None, Some(<<>>), Some(<< nmAB, nmA >>),
                  Some(<< nmA, nmPublic, nmAB >>) } }

\* Requests of the server runs: every path of the endpoint, with small
\* arguments.
ServerArguments ==
    [ sbsh_execute_sql |->
        { [ NoArgs EXCEPT !.sql = q, !.limit = l ] :
            q \in { None, Some(<<>>), Some(sqlBlank), Some(sqlSelect1),
                    Some(sqlDropUsers), Some(sqlExplainDelete) },
            l \in { Some(2) } },
      sbsh_introspect_schema |->
        { NoArgs, [ NoArgs EXCEPT !.schemas = Some(<< nmPublic >>) ] },
      sbsh_get_table_doc |->
        { [ NoArgs EXCEPT !.table = tb ] :
            tb \in { None, Some(<<>>), Some(nmUsers), Some(nmABC) } },
      sbsh_postgrest_get |->
        { [ NoArgs EXCEPT !.table = tb ] : tb \in { None, Some(nmUsers) } } ]

ServerEnvelopes ==
    UNION { UNION { { ToolCall(id, name, a) : a \in ServerArguments[name] } :
                      name \in HandlerNames }
            \cup { Envelope(id, "tools/list", None, NoArgs),
                   Envelope(id, "resources/list", None, NoArgs),
                   Envelope(id, "tools/call", None, NoArgs),
                   Envelope(id, "tools/call", Some("sbsh_nope"), NoArgs),
                   [ NoReq EXCEPT !.id = id ] } :
            id \in { None, Some(7) } }

\* Requests that run beside the first one: one of each handler that holds a
\* pooled connection across several awaits.
BackgroundEnvelopes ==
    { ToolCall(Some(8), ToolExecuteSql, [ NoArgs EXCEPT !.sql = Some(sqlSelect1) ]),
      ToolCall(Some(8), ToolIntrospect, NoArgs) }

(***************************************************************************)
(* Catalogs.                                                               *)
(***************************************************************************)
\* The tables of the catalogs: two of them differ only in where the dot of
\* the qualified name falls.
Tables == { << nmPublic, nmUsers >>, << nmA, nmBC >>, << nmAB, nmC >> }

ColumnRow(tb, name, type, nullable, ordinal) ==
    [ table_schema |-> tb[1], table_name |-> tb[2], column_name |-> name,
      data_type |-> type, is_nullable |-> nullable, ordinal_position |-> ordinal ]

IndexRow(tb, name) ==
    [ schemaname |-> tb[1], tablename |-> tb[2], indexname |-> name, indexdef |-> "def" ]

ConstraintRow(tb, name) ==
    [ schema |-> tb[1], table |-> tb[2], conname |-> name, contype |-> "p" ]

PolicyRow(tb, name) ==
    [ schema |-> tb[1], table |-> tb[2], policy_name |-> name, cmd |-> "r" ]

ColumnRows ==
    { ColumnRow(tb, nmId, tyUuid, "NO", 1) : tb \in Tables }
    \cup { ColumnRow(tb, nmEmail, tyText, "YES", 2) : tb \in Tables }

IndexRows == { IndexRow(tb, n) : tb \in Tables, n \in { "idx1", "idx2" } }
ConstraintRows == { ConstraintRow(tb, "pkey") : tb \in Tables }
PolicyRows == { PolicyRow(tb, "policy") : tb \in Tables }

\* Scenario A: public.users(id uuid NOT NULL, email text), one primary key
\* and one policy.
ScenarioCatalog ==
    [ columns     |-> { ColumnRow(<< nmPublic, nmUsers >>, nmId, tyUuid, "NO", 1),
                        ColumnRow(<< nmPublic, nmUsers >>, nmEmail, tyText, "YES", 2) },
      indexes     |-> {},
      constraints |-> { ConstraintRow(<< nmPublic, nmUsers >>, "pkey") },
      policies    |-> { PolicyRow(<< nmPublic, nmUsers >>, "policy") } ]

BoundedSubsets(S, k) == { x \in SUBSET S : Cardinality(x) <= k }

\* The catalogs with at most MaxColRows column rows ...
CatalogShapes ==
    [ columns     : BoundedSubsets(ColumnRows, MaxColRows),
      indexes     : BoundedSubsets(IndexRows, MaxOtherRows),
      constraints : BoundedSubsets(ConstraintRows, MaxOtherRows),
      policies    : BoundedSubsets(PolicyRows, MaxOtherRows) ]

\* ... and at most MaxOtherRows index, constraint and policy rows.
OtherRowsBounded(cat) ==
    Cardinality(cat.indexes) + Cardinality(cat.constraints)
        + Cardinality(cat.policies) <= MaxOtherRows

FeatureChoices == { { "database", "docs", "postgrest" }, { "docs" },
                    { "database", "postgrest" } }

(***************************************************************************)
(* Specifications.                                                         *)
(***************************************************************************)
InitWith(modes, features, jwts, catalogs) ==
    /\ READ_ONLY \in modes
    /\ FEATURES \in features
    /\ POSTGREST_JWT \in jwts
    /\ catalog \in catalogs
    /\ pc = [ r \in Calls |-> "idle" ]
    /\ req = [ r \in Calls |-> NoReq ]
    /\ loc = [ r \in Calls |-> NoLoc ]
    /\ resp = [ r \in Calls |-> NoResp ]
    /\ checkedOut = 0
    /\ acquired = [ r \in Calls |-> 0 ]
    /\ released = [ r \in Calls |-> 0 ]
    /\ sent = [ r \in Calls |-> <<>> ]

\* The server: request 1 takes every path of the endpoint while the other
\* requests run beside it.
Init == InitWith(BOOLEAN, FeatureChoices, BOOLEAN, { ScenarioCatalog })

Next ==
    \E r \in Calls :
        \/ r = 1 /\ Post(r, ServerEnvelopes)
        \/ r # 1 /\ Post(r, BackgroundEnvelopes)
        \/ NextRequest(r)
        \/ Connect(r)
        \/ ConnectFail(r)
        \/ QueryFail(r)
        \/ ExecuteSqlDone(r, { 3 })
        \/ ColumnsDone(r)
        \/ IndexesDone(r)
        \/ ConstraintsDone(r)
        \/ PoliciesDone(r)
        \/ DocColumnsDone(r)
        \/ DocConstraintsDone(r)
        \/ DocPoliciesDone(r)
        \/ FetchDone(r)

Spec == Init /\ [][Next]_vars

\* One execute_sql call over all the statements.
InitSql == InitWith(BOOLEAN, { { "database" }, { "docs" } }, { TRUE }, { ScenarioCatalog })

NextSql ==
    \/ Post(1, SqlEnvelopes)
    \/ Connect(1)
    \/ ConnectFail(1)
    \/ QueryFail(1)
    \/ ExecuteSqlDone(1, { 3 })

SpecSql == InitSql /\ [][NextSql]_vars

\* One execute_sql call over all the limits and result sizes.
InitRows == InitWith(BOOLEAN, { { "database" } }, { TRUE }, { ScenarioCatalog })

NextRows ==
    \/ Post(1, RowEnvelopes)
    \/ Connect(1)
    \/ ConnectFail(1)
    \/ QueryFail(1)
    \/ ExecuteSqlDone(1, RowCounts)

SpecRows == InitRows /\ [][NextRows]_vars

\* One introspect_schema call over all the catalogs.
InitDigest ==
    /\ InitWith({ TRUE }, { { "database" } }, { TRUE }, CatalogShapes)
    /\ OtherRowsBounded(catalog)

NextDigest ==
    \/ Post(1, DigestEnvelopes)
    \/ Connect(1)
    \/ ConnectFail(1)
    \/ QueryFail(1)
    \/ ColumnsDone(1)
    \/ IndexesDone(1)
    \/ ConstraintsDone(1)
    \/ PoliciesDone(1)

SpecDigest == InitDigest /\ [][NextDigest]_vars

(***************************************************************************)
(* Properties.  What a request is, read from the request itself.           *)
(***************************************************************************)
IsToolCall(r, name) ==
    /\ pc[r] # "idle"
    /\ req[r].valid
    /\ req[r].method = "tools/call"
    /\ req[r].name = Some(name)

\* The statement text an execute_sql request carries ('' when it has none).
SqlArg(r) == StringOr(req[r].arguments.sql, <<>>)

IsBlank(s) == \A i \in 1..Len(s) : IsSpaceChar(s[i])

\* An execute_sql request that gets as far as the safety check.
ReachesGate(r) ==
    /\ IsToolCall(r, ToolExecuteSql)
    /\ "database" \in FEATURES
    /\ ~IsBlank(SqlArg(r))

\* The request ended with the READ_ONLY denial.
Denied(r) == pc[r] = "done" /\ resp[r] = CatchResponse(ReadOnlyMsg)

\* The request went on to pool.connect().
Proceeded(r) ==
    \/ pc[r] \in { "connect", "explain", "query" }
    \/ pc[r] = "done" /\ (acquired[r] > 0 \/ resp[r] = CatchResponse(ConnectErrorMsg))

\* C1: for every statement and both values of the safe-mode flag, the
\* execute_sql gate lets the statement through iff safe mode is off, or the
\* statement is an EXPLAIN, or it is not mutating, and denies it otherwise;
\* under safe mode "SELECT 1" and "EXPLAIN DELETE FROM t" pass and
\* "DROP TABLE t" is denied.
C1_GateDecision ==
    \A r \in Calls :
        ReachesGate(r) =>
            LET S         == SqlArg(r)
                permitted == ~READ_ONLY \/ isExplain(S) \/ ~isMutatingSql(S)
            IN  /\ Proceeded(r) <=> permitted
                /\ Denied(r) <=> ~permitted
                /\ READ_ONLY /\ S \in { sqlSelect1, sqlExplainDelete } => Proceeded(r)
                /\ READ_ONLY /\ S = sqlDropTableT => Denied(r)

C1_Witness ==
    /\ READ_ONLY
    /\ ReachesGate(1)
    /\ SqlArg(1) = sqlExplainDelete
    /\ pc[1] = "explain"
    /\ sent[1] = << Query("sql", sqlExplainDelete) >>

\* C2: when the gate denies a statement (safe mode on, statement mutating
\* and not an EXPLAIN), the call ends with the READ_ONLY denial error, which
\* is none of the other errors, and the call has acquired no pooled
\* connection and dispatched no statement.
C2_DenialTouchesNothing ==
    \A r \in Calls :
        /\ ReachesGate(r) /\ READ_ONLY /\ isMutatingSql(SqlArg(r))
             /\ ~isExplain(SqlArg(r))
           => /\ pc[r] = "done"
              /\ resp[r] = CatchResponse(ReadOnlyMsg)
              /\ ReadOnlyMsg \notin { EngineErrorMsg, ConnectErrorMsg, SqlRequiredMsg,
                                      FeatureDisabledMsg("database") }
              /\ acquired[r] = 0
              /\ released[r] = 0
              /\ sent[r] = <<>>
        /\ Denied(r) => acquired[r] = 0 /\ sent[r] = <<>>

C2_Witness ==
    \E r \in Calls :
        /\ READ_ONLY
        /\ ReachesGate(r)
        /\ SqlArg(r) = sqlDropUsers
        /\ Denied(r)
        /\ \E o \in Calls \ {r} : acquired[o] > 0

\* C3: in READ_ONLY mode no statement that isMutatingSql classifies as
\* mutating is ever dispatched to the database engine.
C3_NoMutatingStatementDispatched ==
    READ_ONLY =>
        \A r \in Calls : \A k \in 1..Len(sent[r]) :
            sent[r][k].kind = "sql" => ~isMutatingSql(sent[r][k].text)

\* The deny-list as the specification spells it.
DeniedTokens ==
    { <<"I", "N", "S", "E", "R", "T">>,
      <<"U", "P", "D", "A", "T", "E">>,
      <<"D", "E", "L", "E", "T", "E">>,
      <<"M", "E", "R", "G", "E">>,
      <<"T", "R", "U", "N", "C", "A", "T", "E">>,
      <<"A", "L", "T", "E", "R">>,
      <<"D", "R", "O", "P">>,
      <<"C", "R", "E", "A", "T", "E">>,
      <<"R", "E", "I", "N", "D", "E", "X">>,
      <<"V", "A", "C", "U", "U", "M">>,
      <<"G", "R", "A", "N", "T">>,
      <<"R", "E", "V", "O", "K", "E">>,
      <<"C", "O", "P", "Y">>,
      <<"A", "N", "A", "L", "Y", "Z", "E">>,
      <<"B", "E", "G", "I", "N">>,
      <<"C", "O", "M", "M", "I", "T">>,
      <<"R", "O", "L", "L", "B", "A", "C", "K">> }

UpperOf(w) == [ i \in 1..Len(w) |-> ToUpperChar(w[i]) ]

\* s[i..j] is a whole word of s: a maximal run of letters, digits and '_'.
WholeWord(s, i, j) ==
    /\ 1 <= i /\ i <= j /\ j <= Len(s)
    /\ i = 1 \/ ~IsWordChar(s[i - 1])
    /\ j = Len(s) \/ ~IsWordChar(s[j + 1])
    /\ \A k \in i..j : IsWordChar(s[k])

\* s contains a token of the deny-list as a whole word, whatever its case:
\* one of the single words, or the word SET, white space, the word ROLE.
ContainsDeniedToken(s) ==
    \/ \E i \in 1..Len(s) : \E j \in i..Len(s) :
         WholeWord(s, i, j) /\ UpperOf(SubSeq(s, i, j)) \in DeniedTokens
    \/ \E i \in 1..Len(s) : \E k \in (i + 4)..Len(s) :
         /\ WholeWord(s, i, i + 2) /\ UpperOf(SubSeq(s, i, i + 2)) = <<"S", "E", "T">>
         /\ \A m \in (i + 3)..(k - 1) : IsSpaceChar(s[m])
         /\ k + 3 <= Len(s)
         /\ WholeWord(s, k, k + 3)
         /\ UpperOf(SubSeq(s, k, k + 3)) = <<"R", "O", "L", "E">>

\* C4: isMutatingSql(S) is true iff S contains, anywhere and as a
\* case-insensitive whole word, a token of the deny-list; a keyword inside a
\* string literal or a comment counts; under safe mode such a statement that
\* is no EXPLAIN is the one the handler denies.
C4_MutatingIffDeniedToken ==
    \A r \in Calls :
        IsToolCall(r, ToolExecuteSql) =>
            LET S        == SqlArg(r)
                mutating == isMutatingSql(S)
                token    == ContainsDeniedToken(S)
            IN  /\ mutating <=> token
                /\ S \in { sqlUpdateInLiteral, sqlDropInComment, sqlSetRoleLines }
                     => mutating
                /\ S = sqlUpdatedAt => ~mutating
                /\ ReachesGate(r) /\ READ_ONLY /\ ~isExplain(S)
                     => (Denied(r) <=> token)

C4_Witness ==
    /\ READ_ONLY
    /\ ReachesGate(1)
    /\ SqlArg(1) = sqlDropInComment
    /\ Denied(1)

\* The feature that switches a tool on (lines 453, 486, 505).
FeatureOf(name) ==
    CASE name \in { ToolIntrospect, ToolExecuteSql } -> "database"
      [] name = ToolPostgrest -> "postgrest"
      [] name = ToolTableDoc -> "docs"

\* C7: a call of a tool whose feature is not enabled fails with the
\* feature-disabled error naming that feature, whatever its arguments, and
\* acquires no connection and dispatches no query.
C7_DisabledFeature ==
    \A r \in Calls : \A name \in HandlerNames :
        IsToolCall(r, name) /\ FeatureOf(name) \notin FEATURES =>
            /\ pc[r] = "done"
            /\ resp[r] = CatchResponse(FeatureDisabledMsg(FeatureOf(name)))
            /\ acquired[r] = 0
            /\ sent[r] = <<>>

C7_Witness ==
    \E r \in Calls :
        /\ READ_ONLY
        /\ "database" \notin FEATURES
        /\ IsToolCall(r, ToolExecuteSql)
        /\ SqlArg(r) = sqlDropUsers
        /\ resp[r] = CatchResponse("Feature \"database\" is disabled")

(***************************************************************************)
(* Properties of the results of execute_sql.                               *)
(***************************************************************************)
\* The request ended with a result of the given type.
Returned(r, type) ==
    /\ pc[r] = "done"
    /\ resp[r].result # None
    /\ Get(resp[r].result).type = type

\* The limit the caller asked for (100 when omitted).
RequestedLimit(r) == NumberOr(req[r].arguments.limit, 100)

\* C5: row-limit law: a successful non-EXPLAIN execute_sql call whose
\* statement produced N rows, with requested limit L (100 when omitted) and
\* clamped = min(L, 1000), returns min(N, clamped) rows and
\* truncated = (N > clamped), so truncated tells exactly whether more rows
\* existed than were returned.
C5_RowLimitLaw ==
    \A r \in Calls :
        IsToolCall(r, ToolExecuteSql) /\ Returned(r, "query") =>
            LET out     == Get(resp[r].result)
                N       == out.rowCount
                clamped == Min(RequestedLimit(r), 1000)
            IN  /\ Len(out.rows) = Min(N, clamped)
                /\ out.truncated = (N > clamped)
                /\ out.truncated <=> (N > Len(out.rows))

\* C6: hard ceiling: a successful non-EXPLAIN execute_sql call never returns
\* more than 1000 rows, whatever limit the caller passes.
C6_HardCeiling ==
    \A r \in Calls :
        IsToolCall(r, ToolExecuteSql) /\ Returned(r, "query") =>
            Len(Get(resp[r].result).rows) <= 1000

(***************************************************************************)
(* Properties of the digest of introspect_schema.                          *)
(***************************************************************************)
\* The introspect_schema request returned its digest; loc[r] still holds the
\* four query results of this run.
DigestDone(r) == IsToolCall(r, ToolIntrospect) /\ Returned(r, "digest")

IndexKey(i) == KeyOf(i.schemaname, i.tablename)
RowKey(x) == KeyOf(x.schema, x.table)
ColumnKey(c) == KeyOf(c.table_schema, c.table_name)
EntryKey(e) == KeyOf(e.schema, e.table)

\* The keys that have a column row in the columns result of the run.
ColumnKeys(r) == { ColumnKey(loc[r].cols[j]) : j \in 1..Len(loc[r].cols) }

CountWhere(rows, Test(_)) == Cardinality({ j \in 1..Len(rows) : Test(rows[j]) })

\* C8: orphan-row law: an index, constraint or policy row whose
\* schema.table key has no column row in the same run creates no digest
\* entry, changes no count and no RLS flag and causes no error; a row whose
\* key has a column row is attached to exactly that key's entry.
C8_OrphanRows ==
    \A r \in Calls :
        DigestDone(r) =>
            LET out  == Get(resp[r].result)
                keys == ColumnKeys(r)
                IndexKept(i) == IndexKey(i) \in keys
                RowKept(x) == RowKey(x) \in keys
            IN  /\ resp[r].status = 200 /\ resp[r].error = None
                /\ \A k \in 1..Len(out.digest) : EntryKey(out.digest[k]) \in keys
                /\ \A k, m \in 1..Len(out.digest) :
                     EntryKey(out.digest[k]) = EntryKey(out.digest[m]) => k = m
                /\ out = IntrospectResult(loc[r].cols,
                                          SelectSeq(loc[r].idx, IndexKept),
                                          SelectSeq(loc[r].cons, RowKept),
                                          SelectSeq(loc[r].rls, RowKept))
                /\ \A k \in 1..Len(out.digest) :
                     LET e == out.digest[k]
                         IndexOfEntry(i) == IndexKey(i) = EntryKey(e)
                         RowOfEntry(x) == RowKey(x) = EntryKey(e)
                     IN  /\ e.idx_count = CountWhere(loc[r].idx, IndexOfEntry)
                         /\ e.cons_count = CountWhere(loc[r].cons, RowOfEntry)
                         /\ e.rls = (CountWhere(loc[r].rls, RowOfEntry) > 0)

C8_Witness ==
    /\ DigestDone(1)
    /\ \E j \in 1..Len(loc[1].idx) : IndexKey(loc[1].idx[j]) \notin ColumnKeys(1)
    /\ \E k \in 1..Len(Get(resp[1].result).digest) :
         Get(resp[1].result).digest[k].idx_count = 1

\* The (schema, table) pairs that have a column row in the run.
ColumnTables(r) ==
    { << loc[r].cols[j].table_schema, loc[r].cols[j].table_name >> :
        j \in 1..Len(loc[r].cols) }

\* C9: the digest holds exactly one entry per distinct (schema, table) pair
\* that has a column row, no entry mixes the rows of two pairs, also when
\* names contain a '.', and table_count is the number of such pairs and the
\* length of the digest.
C9_OneEntryPerTable ==
    \A r \in Calls :
        DigestDone(r) =>
            LET out == Get(resp[r].result)
            IN  /\ out.table_count = Cardinality(ColumnTables(r))
                /\ out.table_count = Len(out.digest)
                /\ \A tb \in ColumnTables(r) :
                     Cardinality({ k \in 1..Len(out.digest) :
                         out.digest[k].schema = tb[1] /\ out.digest[k].table = tb[2] }) = 1
                /\ \A k \in 1..Len(out.digest) :
                     LET e == out.digest[k]
                         ColumnOfTable(c) ==
                             c.table_schema = e.schema /\ c.table_name = e.table
                     IN  Len(e.cols) = CountWhere(loc[r].cols, ColumnOfTable)

\* "name:type", with '!' when the column is NOT NULL.
Rendered(c) ==
    c.column_name \o << ":" >> \o c.data_type
        \o (IF c.is_nullable = "NO" THEN << "!" >> ELSE <<>>)

\* The place of the first column row with the entry's key.
FirstSeen(rows, e) ==
    CHOOSE j \in 1..Len(rows) :
        /\ ColumnKey(rows[j]) = EntryKey(e)
        /\ \A m \in 1..(j - 1) : ColumnKey(rows[m]) # EntryKey(e)

\* C10: each digest entry lists its table's column rows in the order of the
\* columns result, each as "name:type" plus '!' iff NOT NULL; idx_count and
\* cons_count count the index and constraint rows with the entry's key; rls
\* tells whether a policy row has that key; the entries come in first-seen
\* order of their key.  Scenario A gives cols ["id:uuid!", "email:text"],
\* cons_count 1 and rls true.
C10_DigestContent ==
    \A r \in Calls :
        DigestDone(r) =>
            LET out == Get(resp[r].result)
            IN  /\ \A k \in 1..Len(out.digest) :
                     LET e == out.digest[k]
                         ColumnOfTable(c) ==
                             c.table_schema = e.schema /\ c.table_name = e.table
                         IndexOfEntry(i) == IndexKey(i) = EntryKey(e)
                         RowOfEntry(x) == RowKey(x) = EntryKey(e)
                         mine == SelectSeq(loc[r].cols, ColumnOfTable)
                     IN  /\ e.cols = [ j \in 1..Len(mine) |-> Rendered(mine[j]) ]
                         /\ e.idx_count = CountWhere(loc[r].idx, IndexOfEntry)
                         /\ e.cons_count = CountWhere(loc[r].cons, RowOfEntry)
                         /\ e.rls = (CountWhere(loc[r].rls, RowOfEntry) > 0)
                /\ \A k, m \in 1..Len(out.digest) :
                     k < m => FirstSeen(loc[r].cols, out.digest[k])
                                < FirstSeen(loc[r].cols, out.digest[m])
                /\ catalog = ScenarioCatalog /\ loc[r].schemas = << nmPublic >>
                     => out.digest =
                          << [ schema |-> nmPublic, table |-> nmUsers,
                               cols |-> << <<"i", "d", ":", "u", "u", "i", "d", "!">>,
                                           <<"e", "m", "a", "i", "l", ":", "t", "e", "x", "t">> >>,
                               idx_count |-> 0, cons_count |-> 1, rls |-> TRUE ] >>

(***************************************************************************)
(* Properties of get_table_doc.                                            *)
(***************************************************************************)
\* The values of the table argument: absent, empty, without a dot, with one
\* dot and with two.
DocTables ==
    { None, Some(<<>>), Some(nmUsers), Some(nmPublic \o << "." >> \o nmUsers),
      Some(nmAB), Some(nmABC) }

DocEnvelopes ==
    { ToolCall(Some(7), ToolTableDoc, [ NoArgs EXCEPT !.table = tb ]) :
        tb \in DocTables }

\* One get_table_doc call over all the catalogs.
InitDoc ==
    /\ InitWith({ TRUE }, { { "docs" }, { "database" } }, { TRUE }, CatalogShapes)
    /\ OtherRowsBounded(catalog)

NextDoc ==
    \/ Post(1, DocEnvelopes)
    \/ Connect(1)
    \/ ConnectFail(1)
    \/ QueryFail(1)
    \/ DocColumnsDone(1)
    \/ DocConstraintsDone(1)
    \/ DocPoliciesDone(1)

SpecDoc == InitDoc /\ [][NextDoc]_vars

\* The table argument a get_table_doc request carries ('' when it has none).
TableArg(r) == StringOr(req[r].arguments.table, <<>>)

FirstDot(s) == CHOOSE i \in 1..Len(s) : s[i] = "." /\ \A j \in 1..(i - 1) : s[j] # "."

\* The text before the first '.' and all the text after it; "public" and the
\* whole text when there is no '.'.
SplitOnFirstDot(s) ==
    IF Includes(s, ".")
    THEN [ schema |-> SubSeq(s, 1, FirstDot(s) - 1),
           table  |-> SubSeq(s, FirstDot(s) + 1, Len(s)) ]
    ELSE [ schema |-> nmPublic, table |-> s ]

\* C11: get_table_doc resolves its table argument by splitting on the first
\* '.' (schema before it, all the rest the table, "a.b.c" giving schema "a"
\* and table "b.c"), or to schema "public" and the whole argument when there
\* is no '.'; the three queries are scoped to the resolved pair and the
\* result reports it.
C11_TableResolution ==
    \A r \in Calls :
        IsToolCall(r, ToolTableDoc) /\ loc[r].tool = ToolTableDoc =>
            LET want == SplitOnFirstDot(TableArg(r))
            IN  /\ loc[r].schema = want.schema
                /\ loc[r].table = want.table
                /\ "cols" \in DOMAIN loc[r] =>
                     loc[r].cols = DocColumnsQuery(catalog, want.schema, want.table)
                /\ "cons" \in DOMAIN loc[r] =>
                     loc[r].cons = DocConstraintsQuery(catalog, want.schema, want.table)
                /\ Returned(r, "table_doc") =>
                     /\ Get(resp[r].result).schema = want.schema
                     /\ Get(resp[r].result).table = want.table
                     /\ Get(resp[r].result).rls_policies =
                          DocPoliciesQuery(catalog, want.schema, want.table)

(***************************************************************************)
(* Properties of the outcome of a tools/call request.                      *)
(***************************************************************************)
\* The request names one of the handlers.
IsHandlerCall(r) == \E name \in HandlerNames : IsToolCall(r, name)

ToolOf(r) == Get(req[r].name)

\* The failure a handler meets before its first await, if any: the message
\* of the disabled feature, of the validation or of the safety denial.
EarlyFailure(r) ==
    IF FeatureOf(ToolOf(r)) \notin FEATURES
        THEN Some(FeatureDisabledMsg(FeatureOf(ToolOf(r))))
    ELSE IF ToolOf(r) = ToolExecuteSql /\ IsBlank(SqlArg(r)) THEN Some(SqlRequiredMsg)
    ELSE IF ToolOf(r) = ToolExecuteSql /\ GateDenies(SqlArg(r)) THEN Some(ReadOnlyMsg)
    ELSE IF ToolOf(r) = ToolPostgrest /\ ~POSTGREST_JWT THEN Some(JwtMissingMsg)
    ELSE IF ToolOf(r) \in { ToolPostgrest, ToolTableDoc }
              /\ StringOr(req[r].arguments.table, <<>>) = <<>>
        THEN Some(TableRequiredMsg)
    ELSE None

\* The queries a call of the tool dispatches when none of them fails.
AllQueries(r) ==
    CASE ToolOf(r) = ToolExecuteSql -> << Query("sql", SqlArg(r)) >>
      [] ToolOf(r) = ToolIntrospect ->
           << Query("columns", <<>>), Query("indexes", <<>>),
              Query("constraints", <<>>), Query("policies", <<>>) >>
      [] ToolOf(r) = ToolTableDoc ->
           << Query("doc_columns", <<>>), Query("doc_constraints", <<>>),
              Query("doc_policies", <<>>) >>
      [] ToolOf(r) = ToolPostgrest -> <<>>

IsPrefix(a, b) == Len(a) <= Len(b) /\ a = SubSeq(b, 1, Len(a))

\* The message of the error response of a finished request.
ErrorMessage(r) == Get(resp[r].error).message

\* C12: every tools/call request ends in one response, an error or a result
\* and never both; a disabled feature, a validation failure, a safety denial
\* and a failure of pool.connect() or of any query are reported as an error
\* carrying the underlying message, never as a result; a result is returned
\* only when every query of the call was answered; each query of a call is
\* dispatched at most once.
C12_FailuresSurfaceOnce ==
    \A r \in Calls :
        /\ pc[r] = "done" /\ req[r].valid /\ req[r].method = "tools/call" =>
              (resp[r].error = None) # (resp[r].result = None)
        /\ IsHandlerCall(r) =>
            /\ IsPrefix(sent[r], AllQueries(r))
            /\ pc[r] # "done" => resp[r] = NoResp
            /\ pc[r] = "done" =>
                 /\ (resp[r].error = None) # (resp[r].result = None)
                 /\ EarlyFailure(r) # None =>
                      /\ resp[r].result = None
                      /\ ErrorMessage(r) = Get(EarlyFailure(r))
                      /\ sent[r] = <<>>
                 /\ EarlyFailure(r) = None /\ resp[r].error # None =>
                      ErrorMessage(r) =
                          IF ToolOf(r) = ToolPostgrest THEN PostgrestErrorMsg
                          ELSE IF acquired[r] = 0 THEN ConnectErrorMsg
                          ELSE EngineErrorMsg
                 /\ sent[r] # AllQueries(r) => resp[r].result = None
                 /\ resp[r].result # None => EarlyFailure(r) = None

C12_Witness ==
    /\ IsToolCall(1, ToolIntrospect)
    /\ pc[1] = "done"
    /\ Len(sent[1]) = 2
    /\ resp[1].error # None
    /\ ErrorMessage(1) = EngineErrorMsg

(***************************************************************************)
(* Properties of the validation of the arguments.                          *)
(***************************************************************************)
\* An execute_sql request without statement text, or a get_table_doc request
\* without table.
LacksArgument(r) ==
    \/ IsToolCall(r, ToolExecuteSql) /\ IsBlank(SqlArg(r))
    \/ IsToolCall(r, ToolTableDoc) /\ TableArg(r) = <<>>

ValidationMsg(r) ==
    IF req[r].name = Some(ToolExecuteSql) THEN SqlRequiredMsg ELSE TableRequiredMsg

\* The request ended with the validation error and touched nothing.
FailedValidation(r) ==
    /\ pc[r] = "done"
    /\ resp[r] = CatchResponse(ValidationMsg(r))
    /\ acquired[r] = 0
    /\ released[r] = 0
    /\ sent[r] = <<>>

\* C13, as stated: execute_sql with a missing, empty or whitespace-only sql
\* argument and get_table_doc with a missing or empty table argument fail
\* with the validation error, without acquiring a connection and without
\* dispatching a query.
C13_ValidationAlways ==
    \A r \in Calls : LacksArgument(r) => FailedValidation(r)

\* C13, amended: the same when the feature of the tool is enabled (the
\* feature check comes first, and a disabled feature gives its own error);
\* the safety gate never answers such a request.
C13_ValidationWhenEnabled ==
    \A r \in Calls :
        LacksArgument(r) =>
            /\ FeatureOf(ToolOf(r)) \in FEATURES => FailedValidation(r)
            /\ ~Denied(r)
            /\ acquired[r] = 0 /\ sent[r] = <<>>

C13_Witness ==
    /\ READ_ONLY
    /\ IsToolCall(1, ToolExecuteSql)
    /\ req[1].arguments.sql = Some(sqlBlank)
    /\ FailedValidation(1)
    /\ IsToolCall(2, ToolIntrospect)
    /\ pc[2] = "indexes"

(***************************************************************************)
(* Properties of introspect_schema calls that run side by side.            *)
(***************************************************************************)
\* public.users and a."b.c", with an index each, a primary key and a policy.
TwoTableCatalog ==
    [ columns     |-> { ColumnRow(<< nmPublic, nmUsers >>, nmId, tyUuid, "NO", 1),
                        ColumnRow(<< nmPublic, nmUsers >>, nmEmail, tyText, "YES", 2),
                        ColumnRow(<< nmA, nmBC >>, nmId, tyUuid, "NO", 1) },
      indexes     |-> { IndexRow(<< nmPublic, nmUsers >>, "idx1"),
                        IndexRow(<< nmA, nmBC >>, "idx1") },
      constraints |-> { ConstraintRow(<< nmPublic, nmUsers >>, "pkey") },
      policies    |-> { PolicyRow(<< nmA, nmBC >>, "policy") } ]

PairEnvelopes ==
    { ToolCall(Some(7), ToolIntrospect, [ NoArgs EXCEPT !.schemas = sch ]) :
        sch \in { None, Some(<< nmA, nmPublic >>) } }
    \cup { ToolCall(Some(7), ToolExecuteSql, [ NoArgs EXCEPT !.sql = Some(sqlSelect1) ]) }

\* Every request is an introspect_schema or an execute_sql call; they run
\* interleaved and one after the other.
InitPair ==
    InitWith({ TRUE }, { { "database" } }, { TRUE }, { ScenarioCatalog, TwoTableCatalog })

NextPair ==
    \E r \in Calls :
        \/ Post(r, PairEnvelopes)
        \/ NextRequest(r)
        \/ Connect(r)
        \/ ConnectFail(r)
        \/ QueryFail(r)
        \/ ExecuteSqlDone(r, { 1 })
        \/ ColumnsDone(r)
        \/ IndexesDone(r)
        \/ ConstraintsDone(r)
        \/ PoliciesDone(r)

SpecPair == InitPair /\ [][NextPair]_vars

\* The schemas an introspect_schema request asks for (["public"] when it
\* names none).
SchemasArg(r) ==
    IF req[r].arguments.schemas = None THEN << nmPublic >>
    ELSE Get(req[r].arguments.schemas)

\* The result the catalog determines for the schemas.
DigestFor(schemas) ==
    IntrospectResult(ColumnsQuery(catalog, schemas), IndexesQuery(catalog, schemas),
                     ConstraintsQuery(catalog, schemas), PoliciesQuery(catalog, schemas))

\* The step changes what request r holds.
Touched(r) ==
    \/ pc'[r] # pc[r] \/ req'[r] # req[r] \/ loc'[r] # loc[r] \/ resp'[r] # resp[r]
    \/ acquired'[r] # acquired[r] \/ released'[r] # released[r] \/ sent'[r] # sent[r]

\* Every digest returned is the one the catalog determines for the schemas
\* asked for, so two calls with the same schemas return the same digest,
\* table_count and note.
DigestsAgree ==
    /\ \A r \in Calls :
         DigestDone(r) => Get(resp[r].result) = DigestFor(SchemasArg(r))
    /\ \A r, q \in Calls :
         DigestDone(r) /\ DigestDone(q) /\ SchemasArg(r) = SchemasArg(q) =>
             /\ Get(resp[r].result).digest = Get(resp[q].result).digest
             /\ Get(resp[r].result).table_count = Get(resp[q].result).table_count
             /\ Get(resp[r].result).note = Get(resp[q].result).note

\* No step of one request changes what another request holds, and the
\* catalog and the configuration never change.
StepsIsolated ==
    /\ \A r, q \in Calls : Touched(r) /\ Touched(q) => r = q
    /\ UNCHANGED config

\* C14: digest idempotence and isolation: introspect_schema calls with the
\* same schemas against the unchanged catalog return identical digest,
\* table_count and note, run one after the other or interleaved with each
\* other and with other calls; no call reads or writes what another wrote.
C14_DigestIdempotentIsolated == []DigestsAgree /\ [][StepsIsolated]_vars

C14_Witness ==
    /\ catalog = TwoTableCatalog
    /\ DigestDone(1)
    /\ DigestDone(2)
    /\ SchemasArg(1) = SchemasArg(2)
    /\ Get(resp[1].result).table_count = 2

(***************************************************************************)
(* Properties of the pooled connections.                                   *)
(***************************************************************************)
\* The tools that work on a pooled connection.
PoolTools == { ToolIntrospect, ToolExecuteSql, ToolTableDoc }

\* The request holds a connection: it waits for the answer to a query.
Holding(r) == pc[r] \in QueryPcs

\* C15: connection lifecycle: a call of introspect_schema, execute_sql or
\* get_table_doc that passes its checks acquires one pooled connection (when
\* pool.connect() succeeds), holds it exactly while its queries run and
\* releases it exactly once on every way out, success or failure of a query;
\* once every call has finished no connection is checked out; a call that
\* fails before it acquires one releases nothing; no other request touches
\* the pool.
C15_ConnectionLifecycle ==
    /\ checkedOut = Cardinality({ r \in Calls : Holding(r) })
    /\ checkedOut <= PoolMax
    /\ (\A r \in Calls : ~Holding(r) /\ pc[r] # "connect") => checkedOut = 0
    /\ \A r \in Calls :
         /\ acquired[r] \in { 0, 1 }
         /\ released[r] <= acquired[r]
         /\ Holding(r) <=> (acquired[r] = 1 /\ released[r] = 0)
         /\ pc[r] = "done" => released[r] = acquired[r]
         /\ acquired[r] = 1 => IsHandlerCall(r) /\ ToolOf(r) \in PoolTools
                                 /\ EarlyFailure(r) = None
         /\ pc[r] = "done" /\ IsHandlerCall(r) /\ ToolOf(r) \in PoolTools
              /\ EarlyFailure(r) = None /\ resp[r] # CatchResponse(ConnectErrorMsg)
              => acquired[r] = 1 /\ released[r] = 1

C15_Witness ==
    /\ IsToolCall(1, ToolTableDoc)
    /\ pc[1] = "done"
    /\ resp[1] = CatchResponse(EngineErrorMsg)
    /\ Len(sent[1]) = 3
    /\ acquired[1] = 1 /\ released[1] = 1
    /\ pc[2] = "done"
    /\ acquired[2] = 1 /\ released[2] = 1
    /\ checkedOut = 0

(***************************************************************************)
(* Properties of the four queries of introspect_schema.                    *)
(***************************************************************************)
\* The four catalog queries, in the order the handler issues them.
FourQueries ==
    << Query("columns", <<>>), Query("indexes", <<>>),
       Query("constraints", <<>>), Query("policies", <<>>) >>

\* The results the request holds are those of the queries answered so far.
HeldResults(r) ==
    /\ DOMAIN loc[r] \subseteq { "tool", "schemas", "cols", "idx", "cons", "rls" }
    /\ ("cols" \in DOMAIN loc[r]) = (pc[r] \in { "indexes", "constraints", "policies", "done" })
    /\ ("idx" \in DOMAIN loc[r]) = (pc[r] \in { "constraints", "policies", "done" })
    /\ ("cons" \in DOMAIN loc[r]) = (pc[r] \in { "policies", "done" })
    /\ ("rls" \in DOMAIN loc[r]) = (pc[r] = "done")

\* C16: introspect_schema aggregates only after all four catalog queries
\* (columns, indexes, constraints, policies) were answered: no response and
\* no digest exists while a query is outstanding; a digest is returned only
\* with the four queries dispatched in order and is built from their four
\* results; when one of them fails the call returns no result at all, partial
\* or empty, but the data-access error, and the connection is released.
C16_AllFourOrNothing ==
    \A r \in Calls :
        IsToolCall(r, ToolIntrospect) =>
            /\ IsPrefix(sent[r], FourQueries)
            /\ pc[r] # "done" => resp[r] = NoResp
            /\ loc[r].tool = ToolIntrospect /\ pc[r] # "connect" => HeldResults(r)
            /\ DigestDone(r) =>
                 /\ sent[r] = FourQueries
                 /\ Get(resp[r].result) =
                      IntrospectResult(loc[r].cols, loc[r].idx, loc[r].cons, loc[r].rls)
                 /\ acquired[r] = 1 /\ released[r] = 1
            /\ pc[r] = "done" /\ acquired[r] = 1 /\ ~DigestDone(r) =>
                 /\ resp[r] = CatchResponse(EngineErrorMsg)
                 /\ released[r] = 1
            /\ pc[r] = "done" /\ sent[r] # FourQueries => resp[r].result = None

C16_Witness ==
    /\ IsToolCall(1, ToolIntrospect)
    /\ pc[1] = "done"
    /\ Len(sent[1]) = 3
    /\ resp[1] = CatchResponse(EngineErrorMsg)
    /\ released[1] = 1
    /\ catalog = TwoTableCatalog

(***************************************************************************)
(* Properties of the JSON-RPC envelope of the responses.                   *)
(***************************************************************************)
\* C17: every response to a POST /mcp request whose envelope carries an id
\* echoes that id, on every path: tools/list, a successful tools/call, an
\* unknown tool, an unknown method, and a tools/call whose handler fails
\* (disabled feature, validation, safety denial, data-access error).
C17_IdEchoed ==
    \A r \in Calls :
        pc[r] = "done" /\ req[r].valid /\ req[r].id # None =>
            resp[r].id = req[r].id

====
